---- MODULE Spec2Model ----
(***************************************************************************)
(* mojo::system::ChannelEndpoint (src/mojo/edk/system/channel_endpoint.cc) *)
(* as a state machine.                                                     *)
(*                                                                         *)
(* Every section of code that runs under base::AutoLock locker(lock_) is   *)
(* one atomic action: lock_ is a mutex, so no other thread observes the    *)
(* fields between its acquisition and its release.  OnReadMessage and      *)
(* DetachFromChannel release the lock before they call the client, so      *)
(* they are split at the release and keep their locals (the snapshot) in   *)
(* variables of their own.                                                 *)
(*                                                                         *)
(* DCHECKs are modelled as in a DCHECK_IS_ON build: the first DCHECK whose *)
(* condition is false records its label in dcheck and the process stops    *)
(* there, with the effects of the statements before it in place.           *)
(*                                                                         *)
(* LOG_IF(severity, condition) evaluates its condition only when the       *)
(* severity is switched on (LOG_IS_ON(severity) && (condition)), so what   *)
(* the condition does depends on the process's minimum log level.          *)
(*                                                                         *)
(* A loop that never ends and does no input or output, no volatile access  *)
(* and no synchronisation is undefined behaviour in C++: what it does is   *)
(* a choice among the outcomes builds produce (LoopOutcomes), made at each *)
(* call that runs into it.                                                 *)
(***************************************************************************)
EXTENDS Integers, Sequences, FiniteSets, TLC

\* ------------------------------------------------------------------ bounds
MaxInitialQueue == 2       \* messages in the constructor's message_queue
MaxCalls == 5              \* calls made on the endpoint after its construction

\* ------------------------------------------------------------- value sets
nullptr == 0               \* a null client, channel or message pointer
kInvalidId == 0            \* ChannelEndpointId(): the id is_valid() rejects
TheChannel == 1            \* the one Channel object of the model

\* Clients, ports and ids are opaque to the endpoint: it copies them and
\* compares them for equality (ids also for validity), nothing else.
Clients == {1, 2}          \* ChannelEndpointClient objects
Ports == {0, 1}            \* client ports
ValidIds == {1, 2}         \* ChannelEndpointIds for which is_valid() holds
\* The (local_id, remote_id) pairs AttachAndRun is called with: the two ids
\* differ, so that source and destination can be told apart, and so do the
\* pairs, so that one attachment can be told from another.
IdPairs == {ids \in ValidIds \X ValidIds : ids[1] # ids[2]}

is_valid(id) == id # kInvalidId

\* Log severities.  The endpoint logs at WARNING only, so the minimum log
\* levels of the model are the two on either side of that threshold: at
\* LOG_WARNING (as at the lower LOG_INFO, the default) warnings are switched
\* on, at LOG_ERROR (as at the higher LOG_FATAL) they are switched off.
LOG_WARNING == 1
LOG_ERROR == 2
LogLevels == {LOG_WARNING, LOG_ERROR}

\* What a build makes of the drain loop of AttachAndRun when its body does
\* nothing (warnings switched off, queue not empty).  The loop then never
\* ends and has no side effect, which is undefined behaviour: a build that
\* keeps the loop spins in it, a build whose compiler assumes that loops
\* end removes it, and control goes on to the statement after the loop with
\* the queue as it was.
LoopOutcomes == {"spins", "removed"}

VARIABLES
    min_log_level,              \* logging::GetMinLogLevel() of the process
    phase,                      \* "unconstructed", "live", "destroyed"
    lock_,                      \* "free", or the name of the call that holds it
                                \* for good ("AttachAndRun" while an AttachAndRun
                                \* spins in its loop)
    lock_waiters,               \* the calls that are waiting to take lock_
    client_,                    \* scoped_refptr<ChannelEndpointClient>
    client_port_,
    channel_,                   \* Channel*
    local_id_,
    remote_id_,
    channel_message_queue_,     \* MessageInTransitQueue, head first
    is_detached_from_channel_,
    dcheck,                     \* "ok", or the label of the DCHECK that failed
    chan_calls,                 \* calls made on the Channel, in order
    client_calls,               \* calls made on clients, in order
    rd_pc,                      \* OnReadMessage: "idle", "call", "yield"
    rd_client,                  \* OnReadMessage's local |client|
    rd_client_port,             \* OnReadMessage's local |client_port|
    dc_pc,                      \* DetachFromChannel: "idle", "notify"
    dc_client,                  \* DetachFromChannel's local |client|
    dc_client_port,             \* DetachFromChannel's local |client_port|
    next_message,               \* identity of the next message created
    attach_log,                 \* each AttachAndRun past its DCHECKs: its ids, and how
                                \* many messages had been enqueued before it
    n_calls,                    \* calls made on the endpoint so far
    n_read,                     \* OnReadMessage calls so far
    n_detach_channel,           \* DetachFromChannel calls so far
    ret                         \* what the last step returned: "true" or "false" from
                                \* EnqueueMessage or ReplaceClient, else "none"

fields == <<client_, client_port_, channel_, local_id_, remote_id_,
            channel_message_queue_, is_detached_from_channel_, lock_>>
rd_vars == <<rd_pc, rd_client, rd_client_port>>
dc_vars == <<dc_pc, dc_client, dc_client_port>>
counters == <<n_calls, n_read, n_detach_channel>>
vars == <<min_log_level, phase, lock_waiters, fields, dcheck, chan_calls,
          client_calls, rd_vars, dc_vars,
          next_message, attach_log, counters, ret>>

\* --------------------------------------------------- the endpoint as a value
\* The fields a locked section reads and writes, with the Channel's call log
\* and the DCHECK outcome, so that the helpers compose as the code's
\* statements do.
Endpoint ==
    [client_ |-> client_, client_port_ |-> client_port_, channel_ |-> channel_,
     local_id_ |-> local_id_, remote_id_ |-> remote_id_,
     channel_message_queue_ |-> channel_message_queue_,
     is_detached_from_channel_ |-> is_detached_from_channel_,
     lock_ |-> lock_, chan_calls |-> chan_calls, dcheck |-> dcheck]

Commit(e) ==
    /\ client_' = e.client_
    /\ client_port_' = e.client_port_
    /\ channel_' = e.channel_
    /\ local_id_' = e.local_id_
    /\ remote_id_' = e.remote_id_
    /\ channel_message_queue_' = e.channel_message_queue_
    /\ is_detached_from_channel_' = e.is_detached_from_channel_
    /\ lock_' = e.lock_
    /\ chan_calls' = e.chan_calls
    /\ dcheck' = e.dcheck

\* DCHECK(cond): a false condition stops the run at this statement.
DCHECK(e, cond, label) ==
    IF e.dcheck = "ok" /\ ~cond THEN [e EXCEPT !.dcheck = label] ELSE e

BoolRet(b) == IF b THEN "true" ELSE "false"

\* LOG_IS_ON(severity): severity >= logging::GetMinLogLevel()
LOG_IS_ON(severity) == severity >= min_log_level

\* ------------------------------------------------ Channel (the collaborator)
\* Channel::WriteMessage(message): the call is recorded with the message's
\* stamped ids and the result the Channel gives; locked tells whether lock_
\* was held by the caller.
WriteMessageCall(m, src, dst, ok, locked) ==
    [call |-> "WriteMessage", msg |-> m, src |-> src, dst |-> dst,
     ok |-> ok, locked |-> locked]

\* Channel::DetachEndpoint(this, local_id, remote_id)
DetachEndpointCall(local, remote, locked) ==
    [call |-> "DetachEndpoint", msg |-> nullptr, src |-> local, dst |-> remote,
     ok |-> TRUE, locked |-> locked]

\* ------------------------------------------------------------ the helpers
\* MessageInTransitQueue::AddMessage: to the tail.
AddMessage(q, m) == Append(q, m)

\* WriteMessageNoLock gone wrong: source and destination ids are exchanged.
WriteMessageNoLockIdsExchanged(e, m, ok) ==
    IF e.channel_ = nullptr \/ m = nullptr
    THEN [e |-> [e EXCEPT !.dcheck = "WriteMessageNoLock: channel_"], ret |-> FALSE]
    ELSE [e |-> [e EXCEPT !.chan_calls =
                    Append(@, WriteMessageCall(m, e.remote_id_, e.local_id_, ok, TRUE))],
          ret |-> ok]

\* ChannelEndpoint::WriteMessageNoLock(message); ok is Channel::WriteMessage's
\* result, which is also what the helper returns.  The value is the endpoint
\* after the call (e) and the result (ret).
WriteMessageNoLock(e, m, ok) ==
    LET a == DCHECK(e, m # nullptr, "WriteMessageNoLock: message")
        b == DCHECK(a, e.channel_ # nullptr, "WriteMessageNoLock: channel_")
        c == DCHECK(b, is_valid(e.local_id_), "WriteMessageNoLock: local_id_.is_valid()")
        d == DCHECK(c, is_valid(e.remote_id_), "WriteMessageNoLock: remote_id_.is_valid()")
    IN  IF d.dcheck # "ok" THEN [e |-> d, ret |-> FALSE]
        ELSE [e |-> [d EXCEPT !.chan_calls =
                        Append(@, WriteMessageCall(m, e.local_id_, e.remote_id_, ok, TRUE))],
              ret |-> ok]

\* ResetChannelNoLock gone wrong: remote_id_ keeps its value.
ResetChannelNoLockKeepingRemoteId(e) ==
    IF e.channel_ = nullptr \/ e.is_detached_from_channel_
    THEN [e EXCEPT !.dcheck = "ResetChannelNoLock: channel_"]
    ELSE [e EXCEPT !.channel_ = nullptr, !.local_id_ = kInvalidId,
                   !.is_detached_from_channel_ = TRUE]

\* The reset gone wrong: the detached latch is not set.
ResetChannelNoLockNotLatching(e) ==
    LET a == DCHECK(e, e.channel_ # nullptr, "ResetChannelNoLock: channel_")
        b == DCHECK(a, is_valid(e.local_id_), "ResetChannelNoLock: local_id_.is_valid()")
        c == DCHECK(b, is_valid(e.remote_id_), "ResetChannelNoLock: remote_id_.is_valid()")
        d == DCHECK(c, ~e.is_detached_from_channel_,
                    "ResetChannelNoLock: !is_detached_from_channel_")
    IN  IF d.dcheck # "ok" THEN d
        ELSE [d EXCEPT !.channel_ = nullptr,
                       !.local_id_ = kInvalidId,
                       !.remote_id_ = kInvalidId]

\* ChannelEndpoint::ResetChannelNoLock()
ResetChannelNoLock(e) ==
    LET a == DCHECK(e, e.channel_ # nullptr, "ResetChannelNoLock: channel_")
        b == DCHECK(a, is_valid(e.local_id_), "ResetChannelNoLock: local_id_.is_valid()")
        c == DCHECK(b, is_valid(e.remote_id_), "ResetChannelNoLock: remote_id_.is_valid()")
        d == DCHECK(c, ~e.is_detached_from_channel_,
                    "ResetChannelNoLock: !is_detached_from_channel_")
    IN  IF d.dcheck # "ok" THEN d
        ELSE [d EXCEPT !.channel_ = nullptr,
                       !.local_id_ = kInvalidId,
                       !.remote_id_ = kInvalidId,
                       !.is_detached_from_channel_ = TRUE]

\* MessageInTransitQueue::GetMessage: takes the head.
GetMessage(q) == [msg |-> Head(q), rest |-> Tail(q)]

\* ------------------------------------------------------------ the operations
\* The constructor gone wrong: the supplied queue is taken over only when
\* no client is given.
ChannelEndpointQueueOnlyWithoutClient(client, client_port, has_queue, q) ==
    LET e == [client_ |-> client, client_port_ |-> client_port,
              channel_ |-> nullptr, local_id_ |-> kInvalidId,
              remote_id_ |-> kInvalidId, channel_message_queue_ |-> << >>,
              is_detached_from_channel_ |-> FALSE, lock_ |-> "free",
              chan_calls |-> << >>, dcheck |-> "ok"]
        a == DCHECK(e, client # nullptr \/ has_queue,
                    "ChannelEndpoint: client_ || message_queue")
    IN  IF a.dcheck # "ok" THEN a
        ELSE IF has_queue /\ client = nullptr
        THEN [a EXCEPT !.channel_message_queue_ = q]
        ELSE a

\* ChannelEndpoint::ChannelEndpoint(client, client_port, message_queue);
\* has_queue tells whether message_queue is non-null, q is what it holds.
ChannelEndpoint(client, client_port, has_queue, q) ==
    LET e == [client_ |-> client, client_port_ |-> client_port,
              channel_ |-> nullptr, local_id_ |-> kInvalidId,
              remote_id_ |-> kInvalidId, channel_message_queue_ |-> << >>,
              is_detached_from_channel_ |-> FALSE, lock_ |-> "free",
              chan_calls |-> << >>, dcheck |-> "ok"]
        a == DCHECK(e, client # nullptr \/ has_queue,
                    "ChannelEndpoint: client_ || message_queue")
    IN  IF a.dcheck # "ok" THEN a
        ELSE IF has_queue THEN [a EXCEPT !.channel_message_queue_ = q]
        ELSE a

\* EnqueueMessage gone wrong: without a channel the message is dropped.
EnqueueMessageDropping(e, m, ok) ==
    IF e.channel_ = nullptr THEN [e |-> e, ret |-> TRUE]
    ELSE WriteMessageNoLock(e, m, ok)

\* EnqueueMessage gone wrong: the Channel's result is not passed on.
EnqueueMessageIgnoringResult(e, m, ok) ==
    IF e.channel_ = nullptr
    THEN [e |-> [e EXCEPT !.channel_message_queue_ = AddMessage(@, m)], ret |-> TRUE]
    ELSE [e |-> WriteMessageNoLock(e, m, ok).e, ret |-> TRUE]

\* ChannelEndpoint::EnqueueMessage(message); ok is the result the Channel
\* gives if the message is written.
EnqueueMessage(e, m, ok) ==
    LET a == DCHECK(e, m # nullptr, "EnqueueMessage: message")
    IN  IF a.dcheck # "ok" THEN [e |-> a, ret |-> FALSE]
        ELSE IF a.channel_ = nullptr
        THEN [e |-> [a EXCEPT !.channel_message_queue_ = AddMessage(@, m)],
              ret |-> TRUE]
        ELSE WriteMessageNoLock(a, m, ok)

\* ReplaceClient gone wrong: the result tells whether a channel is attached.
ReplaceClientReturningAttached(e, client, client_port) ==
    IF e.client_ = nullptr \/ (client = e.client_ /\ client_port = e.client_port_)
    THEN [e |-> [e EXCEPT !.dcheck = "ReplaceClient: client_"], ret |-> FALSE]
    ELSE [e |-> [e EXCEPT !.client_ = client, !.client_port_ = client_port],
          ret |-> e.channel_ # nullptr]

\* ReplaceClient gone wrong: it does not insist on an existing client.
ReplaceClientWithoutClientCheck(e, client, client_port) ==
    IF client = e.client_ /\ client_port = e.client_port_
    THEN [e |-> [e EXCEPT !.dcheck =
             "ReplaceClient: client != client_.get() || client_port != client_port_"],
          ret |-> FALSE]
    ELSE [e |-> [e EXCEPT !.client_ = client, !.client_port_ = client_port],
          ret |-> ~e.is_detached_from_channel_]

\* ChannelEndpoint::ReplaceClient(client, client_port)
ReplaceClient(e, client, client_port) ==
    LET a == DCHECK(e, client # nullptr, "ReplaceClient: client")
        b == DCHECK(a, e.client_ # nullptr, "ReplaceClient: client_")
        c == DCHECK(b, client # e.client_ \/ client_port # e.client_port_,
                    "ReplaceClient: client != client_.get() || client_port != client_port_")
    IN  IF c.dcheck # "ok" THEN [e |-> c, ret |-> FALSE]
        ELSE [e |-> [c EXCEPT !.client_ = client, !.client_port_ = client_port],
              ret |-> ~e.is_detached_from_channel_]

\* DetachFromClient gone wrong: the channel is reset before the Channel is
\* told, so DetachEndpoint gets the ids already cleared.
DetachFromClientResetFirst(e) ==
    LET a == DCHECK(e, e.client_ # nullptr, "DetachFromClient: client_")
        b == [a EXCEPT !.client_ = nullptr]
        c == ResetChannelNoLock(b)
    IN  IF a.dcheck # "ok" THEN a
        ELSE IF b.channel_ = nullptr THEN b
        ELSE [c EXCEPT !.chan_calls =
                 Append(@, DetachEndpointCall(c.local_id_, c.remote_id_, TRUE))]

\* DetachFromClient gone wrong: the lock is dropped before the Channel is
\* told of the detach.
DetachFromClientDetachingUnlocked(e) ==
    LET a == DCHECK(e, e.client_ # nullptr, "DetachFromClient: client_")
        b == [a EXCEPT !.client_ = nullptr]
        c == [b EXCEPT !.chan_calls =
                 Append(@, DetachEndpointCall(b.local_id_, b.remote_id_, FALSE))]
    IN  IF a.dcheck # "ok" THEN a
        ELSE IF b.channel_ = nullptr THEN b
        ELSE ResetChannelNoLock(c)

\* DetachFromClient gone wrong: the client is dropped and the channel side
\* is left as it is.
DetachFromClientKeepingChannel(e) ==
    LET a == DCHECK(e, e.client_ # nullptr, "DetachFromClient: client_")
    IN  IF a.dcheck # "ok" THEN a ELSE [a EXCEPT !.client_ = nullptr]

\* DetachFromClient gone wrong: without a channel it marks the endpoint as
\* detached from its channel all the same.
DetachFromClientLatchingAlways(e) ==
    LET a == DCHECK(e, e.client_ # nullptr, "DetachFromClient: client_")
        b == [a EXCEPT !.client_ = nullptr]
        c == [b EXCEPT !.chan_calls =
                 Append(@, DetachEndpointCall(b.local_id_, b.remote_id_, TRUE))]
    IN  IF a.dcheck # "ok" THEN a
        ELSE IF b.channel_ = nullptr
        THEN [b EXCEPT !.is_detached_from_channel_ = TRUE]
        ELSE ResetChannelNoLock(c)

\* DetachFromClient gone wrong: the endpoint is unregistered and reset
\* whether or not a channel is attached.
DetachFromClientWithoutChannelCheck(e) ==
    LET a == DCHECK(e, e.client_ # nullptr, "DetachFromClient: client_")
        b == [a EXCEPT !.client_ = nullptr]
        c == [b EXCEPT !.chan_calls =
                 Append(@, DetachEndpointCall(b.local_id_, b.remote_id_, TRUE))]
    IN  IF a.dcheck # "ok" THEN a
        ELSE ResetChannelNoLock(c)

\* DetachFromClient gone wrong: Channel::DetachEndpoint is called under
\* lock_ and the call never comes back, so lock_ is never released.
DetachFromClientStuckInDetachEndpoint(e) ==
    LET a == DCHECK(e, e.client_ # nullptr, "DetachFromClient: client_")
        b == [a EXCEPT !.client_ = nullptr]
        c == [b EXCEPT !.chan_calls =
                 Append(@, DetachEndpointCall(b.local_id_, b.remote_id_, TRUE))]
    IN  IF a.dcheck # "ok" THEN a
        ELSE IF b.channel_ = nullptr THEN b
        ELSE [c EXCEPT !.lock_ = "DetachFromClient"]

\* ChannelEndpoint::DetachFromClient()
DetachFromClient(e) ==
    LET a == DCHECK(e, e.client_ # nullptr, "DetachFromClient: client_")
        b == [a EXCEPT !.client_ = nullptr]
        c == [b EXCEPT !.chan_calls =
                 Append(@, DetachEndpointCall(b.local_id_, b.remote_id_, TRUE))]
    IN  IF a.dcheck # "ok" THEN a
        ELSE IF b.channel_ = nullptr THEN b
        ELSE ResetChannelNoLock(c)

\* The while loop of AttachAndRun.  Its body is LOG_IF(WARNING,
\* !WriteMessageNoLock(channel_message_queue_.GetMessage())).  With warnings
\* switched on every queued message, head first, goes to WriteMessageNoLock;
\* oks are the Channel's results, one per message; a false result is logged
\* and the loop goes on.  With warnings switched off the condition is not
\* evaluated: no message is taken from the queue or written, and a
\* non-empty queue stays non-empty.  The loop as written then never ends,
\* which is undefined behaviour; loop is what the build makes of it.  If the
\* loop spins, AttachAndRun does not return and keeps lock_ (every further
\* pass leaves the state as it is).  If the loop was removed, AttachAndRun
\* goes on after it with the queue still full.
RECURSIVE Drain(_, _, _)
Drain(e, oks, loop) ==
    IF e.dcheck # "ok" \/ e.channel_message_queue_ = << >> THEN e
    ELSE IF ~LOG_IS_ON(LOG_WARNING)
    THEN IF loop = "spins" THEN [e EXCEPT !.lock_ = "AttachAndRun"] ELSE e
    ELSE LET g == GetMessage(e.channel_message_queue_)
             w == WriteMessageNoLock([e EXCEPT !.channel_message_queue_ = g.rest],
                                     g.msg, Head(oks))
         IN  Drain(w.e, Tail(oks), loop)

\* The DCHECKs of AttachAndRun, before and after it takes the lock.
AttachAndRunPreconditions(e, channel, local_id, remote_id) ==
    LET a == DCHECK(e, channel # nullptr, "AttachAndRun: channel")
        b == DCHECK(a, is_valid(local_id), "AttachAndRun: local_id.is_valid()")
        c == DCHECK(b, is_valid(remote_id), "AttachAndRun: remote_id.is_valid()")
        d == DCHECK(c, e.channel_ = nullptr, "AttachAndRun: !channel_")
        f == DCHECK(d, ~is_valid(e.local_id_), "AttachAndRun: !local_id_.is_valid()")
    IN  DCHECK(f, ~is_valid(e.remote_id_), "AttachAndRun: !remote_id_.is_valid()")

\* AttachAndRun gone wrong: without a client the queue is thrown away and
\* not drained, since the endpoint detaches at once.
AttachAndRunDiscardingWithoutClient(e, channel, local_id, remote_id, oks, loop) ==
    LET a == AttachAndRunPreconditions(e, channel, local_id, remote_id)
        b == [a EXCEPT !.channel_ = channel, !.local_id_ = local_id,
                       !.remote_id_ = remote_id]
        c == Drain(b, oks, loop)
        d == [b EXCEPT !.channel_message_queue_ = << >>,
                       !.chan_calls =
                 Append(@, DetachEndpointCall(b.local_id_, b.remote_id_, TRUE))]
    IN  IF a.dcheck # "ok" THEN a
        ELSE IF b.client_ = nullptr THEN ResetChannelNoLock(d)
        ELSE c

\* AttachAndRun gone wrong: without a client it undoes the attachment by
\* hand after telling the Channel, and the latch stays false.
AttachAndRunUnattachingWithoutClient(e, channel, local_id, remote_id, oks, loop) ==
    LET a == AttachAndRunPreconditions(e, channel, local_id, remote_id)
        b == [a EXCEPT !.channel_ = channel, !.local_id_ = local_id,
                       !.remote_id_ = remote_id]
        c == Drain(b, oks, loop)
        d == [c EXCEPT !.chan_calls =
                 Append(@, DetachEndpointCall(c.local_id_, c.remote_id_, TRUE))]
    IN  IF a.dcheck # "ok" THEN a
        ELSE IF c.dcheck # "ok" \/ c.lock_ # "free" THEN c
        ELSE IF c.client_ = nullptr
        THEN [d EXCEPT !.channel_ = nullptr, !.local_id_ = kInvalidId,
                       !.remote_id_ = kInvalidId]
        ELSE c

\* ChannelEndpoint::AttachAndRun(channel, local_id, remote_id)
AttachAndRun(e, channel, local_id, remote_id, oks, loop) ==
    LET a == AttachAndRunPreconditions(e, channel, local_id, remote_id)
        b == [a EXCEPT !.channel_ = channel, !.local_id_ = local_id,
                       !.remote_id_ = remote_id]
        c == Drain(b, oks, loop)
        d == [c EXCEPT !.chan_calls =
                 Append(@, DetachEndpointCall(c.local_id_, c.remote_id_, TRUE))]
    IN  IF a.dcheck # "ok" THEN a
        ELSE IF c.dcheck # "ok" \/ c.lock_ # "free" THEN c
        ELSE IF c.client_ = nullptr THEN ResetChannelNoLock(d)
        ELSE c

\* The destructor gone wrong: it also asserts that nothing is left queued.
DestructorRequiringEmptyQueue(e) ==
    LET a == DCHECK(e, e.client_ = nullptr, "~ChannelEndpoint: !client_")
        b == DCHECK(a, e.channel_ = nullptr, "~ChannelEndpoint: !channel_")
        c == DCHECK(b, ~is_valid(e.local_id_), "~ChannelEndpoint: !local_id_.is_valid()")
        d == DCHECK(c, ~is_valid(e.remote_id_), "~ChannelEndpoint: !remote_id_.is_valid()")
    IN  DCHECK(d, e.channel_message_queue_ = << >>,
               "~ChannelEndpoint: channel_message_queue_.IsEmpty()")

\* ChannelEndpoint::~ChannelEndpoint()
Destructor(e) ==
    LET a == DCHECK(e, e.client_ = nullptr, "~ChannelEndpoint: !client_")
        b == DCHECK(a, e.channel_ = nullptr, "~ChannelEndpoint: !channel_")
        c == DCHECK(b, ~is_valid(e.local_id_), "~ChannelEndpoint: !local_id_.is_valid()")
    IN  DCHECK(c, ~is_valid(e.remote_id_), "~ChannelEndpoint: !remote_id_.is_valid()")

\* OnReadMessage gone wrong: a pass that finds no channel or no client goes
\* back to the client it already holds instead of returning.
OnReadMessageLockedRecallingSnapshot(e, client, client_port) ==
    LET a == DCHECK(e, e.client_ # client \/ e.client_port_ # client_port,
                    "OnReadMessage: client_ != client || client_port_ != client_port")
    IN  IF e.channel_ = nullptr \/ e.client_ = nullptr
        THEN [e |-> e, out |-> IF client = nullptr THEN "return" ELSE "call",
              client |-> client, client_port |-> client_port]
        ELSE IF a.dcheck # "ok"
        THEN [e |-> a, out |-> "abort", client |-> client, client_port |-> client_port]
        ELSE [e |-> e, out |-> "call", client |-> e.client_,
              client_port |-> e.client_port_]

\* OnReadMessage gone wrong: the client is copied under the lock, the port
\* is not, and the local keeps the value it had.
OnReadMessageLockedStalePort(e, client, client_port) ==
    LET a == DCHECK(e, e.client_ # client \/ e.client_port_ # client_port,
                    "OnReadMessage: client_ != client || client_port_ != client_port")
    IN  IF e.channel_ = nullptr \/ e.client_ = nullptr
        THEN [e |-> e, out |-> "return", client |-> client, client_port |-> client_port]
        ELSE IF a.dcheck # "ok"
        THEN [e |-> a, out |-> "abort", client |-> client, client_port |-> client_port]
        ELSE [e |-> e, out |-> "call", client |-> e.client_,
              client_port |-> client_port]

\* The locked section at the top of OnReadMessage's loop, entered with the
\* locals |client| and |client_port| as the previous iteration left them.
\* out: "return" (no channel or no client), "call" (snapshot taken) or "abort".
OnReadMessageLocked(e, client, client_port) ==
    LET a == DCHECK(e, e.client_ # client \/ e.client_port_ # client_port,
                    "OnReadMessage: client_ != client || client_port_ != client_port")
    IN  IF e.channel_ = nullptr \/ e.client_ = nullptr
        THEN [e |-> e, out |-> "return", client |-> client, client_port |-> client_port]
        ELSE IF a.dcheck # "ok"
        THEN [e |-> a, out |-> "abort", client |-> client, client_port |-> client_port]
        ELSE [e |-> e, out |-> "call", client |-> e.client_,
              client_port |-> e.client_port_]

\* ChannelEndpointClient::OnReadMessage(port, message), the collaborator: a
\* client that is no longer the endpoint's client must return false, and one
\* that still is accepts the message.
ClientOnReadMessage(e, client, client_port) ==
    e.client_ = client /\ e.client_port_ = client_port

\* DetachFromChannel gone wrong: with the channel already gone it asserts
\* that the endpoint has not been detached yet.
DetachFromChannelLockedAssertingAttached(e) ==
    LET snap == IF e.client_ # nullptr
                THEN [client |-> e.client_, client_port |-> e.client_port_]
                ELSE [client |-> nullptr, client_port |-> 0]
        r == IF e.channel_ # nullptr THEN ResetChannelNoLock(e)
             ELSE DCHECK(e, ~e.is_detached_from_channel_,
                         "DetachFromChannel: is_detached_from_channel_")
    IN  [e |-> r, client |-> snap.client, client_port |-> snap.client_port]

\* DetachFromChannel gone wrong: having saved the client for the
\* notification, the locked section drops the endpoint's reference to it.
DetachFromChannelLockedDroppingClient(e) ==
    LET snap == IF e.client_ # nullptr
                THEN [client |-> e.client_, client_port |-> e.client_port_]
                ELSE [client |-> nullptr, client_port |-> 0]
        r == IF e.channel_ # nullptr THEN ResetChannelNoLock(e)
             ELSE DCHECK(e, e.is_detached_from_channel_,
                         "DetachFromChannel: is_detached_from_channel_")
    IN  [e |-> [r EXCEPT !.client_ = nullptr], client |-> snap.client,
         client_port |-> snap.client_port]

\* The locked section of DetachFromChannel.
DetachFromChannelLocked(e) ==
    LET snap == IF e.client_ # nullptr
                THEN [client |-> e.client_, client_port |-> e.client_port_]
                ELSE [client |-> nullptr, client_port |-> 0]
        r == IF e.channel_ # nullptr THEN ResetChannelNoLock(e)
             ELSE DCHECK(e, e.is_detached_from_channel_,
                         "DetachFromChannel: is_detached_from_channel_")
    IN  [e |-> r, client |-> snap.client, client_port |-> snap.client_port]

ClientCall(call, client, client_port, msg, result, locked) ==
    [call |-> call, client |-> client, port |-> client_port, msg |-> msg,
     ret |-> result, locked |-> locked]

\* ------------------------------------------------------------------ actions
Init ==
    /\ min_log_level \in LogLevels
    /\ phase = "unconstructed"
    /\ lock_ = "free" /\ lock_waiters = {}
    /\ client_ = nullptr /\ client_port_ = 0 /\ channel_ = nullptr
    /\ local_id_ = kInvalidId /\ remote_id_ = kInvalidId
    /\ channel_message_queue_ = << >>
    /\ is_detached_from_channel_ = FALSE
    /\ dcheck = "ok"
    /\ chan_calls = << >> /\ client_calls = << >>
    /\ rd_pc = "idle" /\ rd_client = nullptr /\ rd_client_port = 0
    /\ dc_pc = "idle" /\ dc_client = nullptr /\ dc_client_port = 0
    /\ next_message = 1
    /\ attach_log = << >>
    /\ n_calls = 0 /\ n_read = 0 /\ n_detach_channel = 0
    /\ ret = "none"

Running == phase = "live" /\ dcheck = "ok"

\* lock_ can be taken: no locked section that never ends holds it.
LockFree == lock_ = "free"

\* A new call on the endpoint, while the bound allows one.  Every call takes
\* lock_ (the destructor runs only when no call is in progress), so a call
\* made while lock_ is held for good never gets to act.
NewCall == Running /\ LockFree /\ n_calls < MaxCalls /\ n_calls' = n_calls + 1

\* The value a call hands back, if it runs to its return statement.
Outcome(e, val) == IF e.dcheck = "ok" THEN val ELSE "none"

\* new ChannelEndpoint(client, client_port, message_queue): without a client
\* or with one (client 1 on port 0: which client comes first makes no
\* difference to the endpoint); without a queue, or with one of
\* 0..MaxInitialQueue messages, which are numbered from 1 in queue order.
CallConstructor ==
    /\ phase = "unconstructed"
    /\ \E client \in {nullptr, 1}, has_queue \in BOOLEAN, k \in 0..MaxInitialQueue :
          /\ has_queue \/ k = 0
          /\ Commit(ChannelEndpoint(client, 0, has_queue, [i \in 1..k |-> i]))
          /\ next_message' = k + 1
    /\ phase' = "live"
    /\ ret' = "none"
    /\ UNCHANGED <<min_log_level, lock_waiters, client_calls, rd_vars, dc_vars,
                   attach_log, counters>>

\* EnqueueMessage(message) with a new message, numbered in call order.
CallEnqueueMessage ==
    /\ NewCall
    /\ \E ok \in BOOLEAN :
          LET r == EnqueueMessage(Endpoint, next_message, ok)
          IN  /\ Commit(r.e)
              /\ ret' = Outcome(r.e, BoolRet(r.ret))
    /\ next_message' = next_message + 1
    /\ UNCHANGED <<min_log_level, lock_waiters, phase, client_calls, rd_vars,
                   dc_vars, attach_log, n_read, n_detach_channel>>

ReplaceClientStep(client, port) ==
    /\ NewCall
    /\ LET r == ReplaceClient(Endpoint, client, port)
       IN  /\ Commit(r.e)
           /\ ret' = Outcome(r.e, BoolRet(r.ret))
    /\ UNCHANGED <<min_log_level, lock_waiters, phase, client_calls, rd_vars,
                   dc_vars, next_message, attach_log, n_read,
                   n_detach_channel>>

CallReplaceClient == \E client \in Clients, port \in Ports : ReplaceClientStep(client, port)

CallDetachFromClient ==
    /\ NewCall
    /\ Commit(DetachFromClient(Endpoint))
    /\ ret' = "none"
    /\ UNCHANGED <<min_log_level, lock_waiters, phase, client_calls, rd_vars,
                   dc_vars, next_message, attach_log, n_read,
                   n_detach_channel>>

\* AttachAndRun(channel, local_id, remote_id); oks are the results the Channel
\* gives for the queued messages, in queue order, and loop is what the build
\* makes of a drain loop that does nothing.
CallAttachAndRun ==
    /\ NewCall
    /\ \E ids \in IdPairs, oks \in [1..Len(channel_message_queue_) -> BOOLEAN],
          loop \in LoopOutcomes :
          /\ Commit(AttachAndRun(Endpoint, TheChannel, ids[1], ids[2], oks,
                                 loop))
          /\ attach_log' =
                IF AttachAndRunPreconditions(Endpoint, TheChannel, ids[1],
                                             ids[2]).dcheck = "ok"
                THEN Append(attach_log, [local_id |-> ids[1],
                                         remote_id |-> ids[2],
                                         before |-> next_message - 1])
                ELSE attach_log
    /\ ret' = "none"
    /\ UNCHANGED <<min_log_level, lock_waiters, phase, client_calls, rd_vars,
                   dc_vars, next_message, n_read, n_detach_channel>>

\* One pass through the locked section of OnReadMessage's loop.
OnReadMessagePass(client, client_port) ==
    LET r == OnReadMessageLocked(Endpoint, client, client_port)
    IN  /\ Commit(r.e)
        /\ rd_client' = r.client
        /\ rd_client_port' = r.client_port
        /\ rd_pc' = IF r.out = "call" THEN "call" ELSE "idle"
        /\ ret' = "none"

\* The Channel calls OnReadMessage(message): the locals are initialised and
\* the loop is entered.  Inbound messages are numbered in call order.
CallOnReadMessage ==
    /\ NewCall
    /\ rd_pc = "idle"
    /\ n_read' = n_read + 1
    /\ OnReadMessagePass(nullptr, 0)
    /\ UNCHANGED <<min_log_level, lock_waiters, phase, client_calls, dc_vars,
                   next_message, attach_log, n_detach_channel>>

\* OnReadMessage gone wrong: a successful delivery does not leave the loop,
\* and the snapshotted client is called again with the same message.
OnReadMessageDeliverAgain ==
    /\ Running
    /\ rd_pc = "call"
    /\ LET delivered == ClientOnReadMessage(Endpoint, rd_client, rd_client_port)
       IN  /\ client_calls' = Append(client_calls,
                  ClientCall("OnReadMessage", rd_client, rd_client_port, n_read,
                             delivered, FALSE))
           /\ rd_pc' = IF delivered THEN "call" ELSE "yield"
    /\ ret' = "none"
    /\ UNCHANGED <<min_log_level, lock_waiters, phase, fields, dcheck,
                   chan_calls, rd_client, rd_client_port, dc_vars,
                   next_message, attach_log, counters>>

\* client->OnReadMessage(client_port, message.get()), outside the lock.
OnReadMessageDeliver ==
    /\ Running
    /\ rd_pc = "call"
    /\ LET delivered == ClientOnReadMessage(Endpoint, rd_client, rd_client_port)
       IN  /\ client_calls' = Append(client_calls,
                  ClientCall("OnReadMessage", rd_client, rd_client_port, n_read,
                             delivered, FALSE))
           /\ rd_pc' = IF delivered THEN "idle" ELSE "yield"
    /\ ret' = "none"
    /\ UNCHANGED <<min_log_level, lock_waiters, phase, fields, dcheck,
                   chan_calls, rd_client, rd_client_port, dc_vars,
                   next_message, attach_log, counters>>

\* After YieldCurrentThread(): the next iteration of the loop.
OnReadMessageRetry ==
    /\ Running /\ LockFree
    /\ rd_pc = "yield"
    /\ OnReadMessagePass(rd_client, rd_client_port)
    /\ UNCHANGED <<min_log_level, lock_waiters, phase, client_calls, dc_vars,
                   next_message, attach_log, counters>>

\* DetachFromChannel gone wrong: the client is notified inside the locked
\* section, straight from client_ and client_port_.
CallDetachFromChannelNotifyingLocked ==
    /\ NewCall
    /\ dc_pc = "idle"
    /\ n_detach_channel' = n_detach_channel + 1
    /\ LET r == DetachFromChannelLocked(Endpoint)
       IN  /\ Commit(r.e)
           /\ dc_client' = r.client
           /\ dc_client_port' = r.client_port
           /\ client_calls' =
                 IF r.e.dcheck = "ok" /\ r.client # nullptr
                 THEN Append(client_calls,
                             ClientCall("OnDetachFromChannel", r.client,
                                        r.client_port, nullptr, TRUE, TRUE))
                 ELSE client_calls
    /\ dc_pc' = "idle"
    /\ ret' = "none"
    /\ UNCHANGED <<min_log_level, lock_waiters, phase, rd_vars, next_message,
                   attach_log, n_read>>

\* The Channel calls DetachFromChannel(): the locked section.  Without a
\* snapshotted client there is nothing left to do after it.
CallDetachFromChannel ==
    /\ NewCall
    /\ dc_pc = "idle"
    /\ n_detach_channel' = n_detach_channel + 1
    /\ LET r == DetachFromChannelLocked(Endpoint)
       IN  /\ Commit(r.e)
           /\ dc_client' = r.client
           /\ dc_client_port' = r.client_port
           /\ dc_pc' = IF r.e.dcheck = "ok" /\ r.client # nullptr
                       THEN "notify" ELSE "idle"
    /\ ret' = "none"
    /\ UNCHANGED <<min_log_level, lock_waiters, phase, client_calls, rd_vars,
                   next_message, attach_log, n_read>>

\* DetachFromChannel gone wrong: the notification goes to whatever client_
\* and client_port_ are when it is made, not to the snapshot.
DetachFromChannelNotifyCurrentClient ==
    /\ Running
    /\ dc_pc = "notify"
    /\ client_calls' = Append(client_calls,
           ClientCall("OnDetachFromChannel", client_, client_port_, nullptr,
                      TRUE, FALSE))
    /\ dc_pc' = "idle"
    /\ ret' = "none"
    /\ UNCHANGED <<min_log_level, lock_waiters, phase, fields, dcheck,
                   chan_calls, rd_vars, dc_client, dc_client_port,
                   next_message, attach_log, counters>>

\* client->OnDetachFromChannel(client_port), outside the lock.
DetachFromChannelNotify ==
    /\ Running
    /\ dc_pc = "notify"
    /\ client_calls' = Append(client_calls,
           ClientCall("OnDetachFromChannel", dc_client, dc_client_port, nullptr,
                      TRUE, FALSE))
    /\ dc_pc' = "idle"
    /\ ret' = "none"
    /\ UNCHANGED <<min_log_level, lock_waiters, phase, fields, dcheck,
                   chan_calls, rd_vars, dc_client, dc_client_port,
                   next_message, attach_log, counters>>

\* The last reference goes away: ~ChannelEndpoint().
CallDestructor ==
    /\ NewCall
    /\ rd_pc = "idle" /\ dc_pc = "idle"
    /\ LET e == Destructor(Endpoint)
       IN  /\ Commit(e)
           /\ phase' = IF e.dcheck = "ok" THEN "destroyed" ELSE phase
    /\ ret' = "none"
    /\ UNCHANGED <<min_log_level, lock_waiters, client_calls, rd_vars, dc_vars,
                   next_message, attach_log, n_read, n_detach_channel>>

\* The public methods that open with base::AutoLock locker(lock_).
LockingCalls ==
    {"EnqueueMessage", "ReplaceClient", "DetachFromClient", "AttachAndRun",
     "OnReadMessage", "DetachFromChannel"}

\* A call made while lock_ is held: it waits in AutoLock's constructor and has
\* done nothing to the endpoint yet.  (A call made while lock_ is free takes
\* it at once and is the step of its own action above.)
CallWaitsForLock ==
    /\ Running /\ ~LockFree
    /\ n_calls < MaxCalls /\ n_calls' = n_calls + 1
    /\ \E call \in LockingCalls \ lock_waiters :
          lock_waiters' = lock_waiters \cup {call}
    /\ ret' = "none"
    /\ UNCHANGED <<min_log_level, phase, fields, dcheck, chan_calls,
                   client_calls, rd_vars, dc_vars, next_message, attach_log,
                   n_read, n_detach_channel>>


Next ==
    \/ CallConstructor
    \/ CallEnqueueMessage
    \/ CallReplaceClient
    \/ CallDetachFromClient
    \/ CallAttachAndRun
    \/ CallOnReadMessage
    \/ OnReadMessageDeliver
    \/ OnReadMessageRetry
    \/ CallDetachFromChannel
    \/ DetachFromChannelNotify
    \/ CallWaitsForLock
    \/ CallDestructor

Spec == Init /\ [][Next]_vars

\* ------------------------------------------------------------------ claims
IsWriteMessage(c) == c.call = "WriteMessage"
IsDetachEndpoint(c) == c.call = "DetachEndpoint"

\* The WriteMessage calls the Channel has observed, in order.
Writes == SelectSeq(chan_calls, IsWriteMessage)

Last(q) == q[Len(q)]

\* C1: FIFO preservation.  Messages are numbered in the order of their
\* EnqueueMessage calls (the constructor's queue first), so the claim is that
\* the i-th write the Channel observes is message i, and that once an
\* AttachAndRun has run, every message enqueued before it has been written:
\* those messages come in enqueue order, ahead of any message enqueued later.
FifoPreservation ==
    /\ \A i \in 1..Len(Writes) : Writes[i].msg = i
    /\ \A a \in 1..Len(attach_log) : Len(Writes) >= attach_log[a].before

\* C2: EnqueueMessage without a channel appends the message to the tail of the
\* queue, returns true, calls nothing on the Channel and leaves client, port,
\* channel, ids and latch as they were.
EnqueueUnattachedQueues ==
    [][(CallEnqueueMessage /\ channel_ = nullptr) =>
          /\ channel_message_queue_' = Append(channel_message_queue_, next_message)
          /\ ret' = "true"
          /\ dcheck' = "ok"
          /\ chan_calls' = chan_calls
          /\ UNCHANGED <<client_, client_port_, channel_, local_id_, remote_id_,
                         is_detached_from_channel_>>]_vars

\* A message was enqueued behind another one on an endpoint without a channel.
EnqueueUnattachedQueuesWitness ==
    /\ channel_ = nullptr
    /\ ret = "true"
    /\ Len(channel_message_queue_) >= 2
    /\ Last(channel_message_queue_) = next_message - 1
    /\ next_message - 1 > MaxInitialQueue

\* C3: EnqueueMessage with a channel makes exactly one WriteMessage call, for
\* that message, queues nothing, returns what the call returned and changes
\* no field of the endpoint.
EnqueueAttachedWrites ==
    [][(CallEnqueueMessage /\ channel_ # nullptr) =>
          /\ Len(chan_calls') = Len(chan_calls) + 1
          /\ SubSeq(chan_calls', 1, Len(chan_calls)) = chan_calls
          /\ Last(chan_calls').call = "WriteMessage"
          /\ Last(chan_calls').msg = next_message
          /\ ret' = BoolRet(Last(chan_calls').ok)
          /\ dcheck' = "ok"
          /\ UNCHANGED fields]_vars

\* A direct write failed and EnqueueMessage returned false.
EnqueueAttachedWritesWitness ==
    /\ channel_ # nullptr
    /\ ret = "false"
    /\ chan_calls # << >>
    /\ Last(chan_calls).call = "WriteMessage"
    /\ Last(chan_calls).msg = next_message - 1
    /\ ~Last(chan_calls).ok

\* C4: every message handed to WriteMessage carries as source the local_id and
\* as destination the remote_id of the AttachAndRun in force.
WritesCarryAttachIds ==
    [][\A i \in (Len(chan_calls) + 1)..Len(chan_calls') :
          chan_calls'[i].call = "WriteMessage" =>
             /\ attach_log' # << >>
             /\ chan_calls'[i].src = Last(attach_log').local_id
             /\ chan_calls'[i].dst = Last(attach_log').remote_id]_vars

\* A drained message and a directly written one, with distinct ids.
WritesCarryAttachIdsWitness ==
    /\ Len(attach_log) = 1
    /\ attach_log[1].before = 1
    /\ attach_log[1].local_id # attach_log[1].remote_id
    /\ Len(Writes) = 2

\* C5: the channel is attached iff both ids are valid, and the two ids are
\* valid together.
ChannelIffIds ==
    /\ (channel_ # nullptr) <=> (is_valid(local_id_) /\ is_valid(remote_id_))
    /\ is_valid(local_id_) <=> is_valid(remote_id_)

\* The endpoint was attached and has been reset.
ChannelIffIdsWitness ==
    /\ attach_log # << >>
    /\ is_detached_from_channel_
    /\ channel_ = nullptr
    /\ dcheck = "ok"

DetachedLatchIsTerminal ==
    [][(is_detached_from_channel_ /\ dcheck' = "ok") =>
          /\ is_detached_from_channel_'
          /\ channel_' = nullptr
          /\ ~is_valid(local_id_')
          /\ ~is_valid(remote_id_')]_vars

\* C8: AttachAndRun on an endpoint that is attached, or that has been detached
\* from its channel, is stopped by a DCHECK (the claim adds: by one of its
\* preconditions, before it attaches anything).
AttachAndRunRejectedUnlessUnattached ==
    [][(CallAttachAndRun /\ (channel_ # nullptr \/ is_detached_from_channel_)) =>
          dcheck' # "ok"]_vars

\* C9 as claimed: ReplaceClient returns true exactly when a channel is attached.
ReplaceClientReturnsAttached ==
    [][(CallReplaceClient /\ dcheck' = "ok") =>
          (ret' = "true" <=> channel_' # nullptr)]_vars

\* C9 as amended: ReplaceClient returns true exactly when the detached latch is
\* not set, which includes the endpoint that has never been attached.
ReplaceClientReturnsNotDetached ==
    [][(CallReplaceClient /\ dcheck' = "ok") =>
          /\ ret' \in {"true", "false"}
          /\ ret' = "true" <=> ~is_detached_from_channel_]_vars

\* ReplaceClient returned false on an endpoint detached from its channel; with
\* no channel, EnqueueMessage cannot have been the call that returned false.
ReplaceClientReturnsNotDetachedWitness ==
    /\ ret = "false"
    /\ channel_ = nullptr
    /\ is_detached_from_channel_
    /\ client_ # nullptr
    /\ dcheck = "ok"

\* C10: a live endpoint without a client never gets one; ReplaceClient and
\* DetachFromClient on it fail a DCHECK, and so does ReplaceClient with the
\* pair the endpoint already has.
NoClientIsTerminal ==
    [][/\ (phase = "live" /\ client_ = nullptr) => client_' = nullptr
       /\ (CallReplaceClient /\ client_ = nullptr) =>
             (dcheck' = "ReplaceClient: client_" /\ UNCHANGED fields)
       /\ (CallDetachFromClient /\ client_ = nullptr) =>
             (dcheck' = "DetachFromClient: client_" /\ UNCHANGED fields)
       /\ (ReplaceClientStep(client_, client_port_) /\ client_ # nullptr) =>
             (dcheck' # "ok" /\ UNCHANGED fields)]_vars

\* ReplaceClient was called after DetachFromClient on an attached endpoint.
NoClientIsTerminalWitness ==
    /\ dcheck = "ReplaceClient: client_"
    /\ is_detached_from_channel_
    /\ \E i \in 1..Len(chan_calls) : IsDetachEndpoint(chan_calls[i])

\* C11: DetachFromClient on an endpoint that has a channel makes exactly one
\* call on the Channel, DetachEndpoint with the local and remote ids the
\* endpoint had before the call, and when it returns the client and the
\* channel are absent, both ids are invalid and the detached latch is set.
DetachFromClientDetachesEndpoint ==
    [][(CallDetachFromClient /\ channel_ # nullptr) =>
          /\ chan_calls' = Append(chan_calls, [call |-> "DetachEndpoint",
                                               msg |-> nullptr,
                                               src |-> local_id_,
                                               dst |-> remote_id_,
                                               ok |-> TRUE, locked |-> TRUE])
          /\ is_valid(local_id_) /\ is_valid(remote_id_)
          /\ dcheck' = "ok" =>
                /\ client_' = nullptr /\ channel_' = nullptr
                /\ ~is_valid(local_id_') /\ ~is_valid(remote_id_')
                /\ is_detached_from_channel_']_vars

\* A message was written straight to the channel after the attach, so the
\* endpoint had a client and stayed attached; then DetachFromClient detached
\* it with the ids of that attach.
DetachFromClientDetachesEndpointWitness ==
    /\ dcheck = "ok" /\ Len(attach_log) = 1
    /\ Len(Writes) > attach_log[1].before
    /\ chan_calls # << >>
    /\ Last(chan_calls).call = "DetachEndpoint"
    /\ Last(chan_calls).src = attach_log[1].local_id
    /\ Last(chan_calls).dst = attach_log[1].remote_id
    /\ client_ = nullptr /\ channel_ = nullptr /\ is_detached_from_channel_

\* The DetachEndpoint calls the Channel has observed, in order.
DetachEndpoints == SelectSeq(chan_calls, IsDetachEndpoint)

\* C12: whatever calls are made on one endpoint, Channel.DetachEndpoint is
\* called at most once, and never after a DetachFromChannel call has been
\* through its locked section.
DetachEndpointAtMostOnce ==
    [][Len(DetachEndpoints') > Len(DetachEndpoints) =>
          /\ DetachEndpoints = << >>
          /\ Len(DetachEndpoints') = 1
          /\ n_detach_channel = 0]_vars

\* C13: AttachAndRun on an endpoint without a client first hands every queued
\* message to WriteMessage, head first and with the ids just assigned, then
\* calls DetachEndpoint once with those ids, and makes no other Channel call;
\* when it returns the queue is empty, the channel is absent, both ids are
\* invalid and the latch is set.
ClientlessAttachDrainsThenDetaches ==
    [][(CallAttachAndRun /\ client_ = nullptr
                         /\ Len(attach_log') > Len(attach_log)) =>
          LET q == channel_message_queue_
              n == Len(chan_calls)
              ids == Last(attach_log')
          IN  /\ Len(chan_calls') = n + Len(q) + 1
              /\ SubSeq(chan_calls', 1, n) = chan_calls
              /\ \A i \in 1..Len(q) :
                    /\ chan_calls'[n + i].call = "WriteMessage"
                    /\ chan_calls'[n + i].msg = q[i]
                    /\ chan_calls'[n + i].src = ids.local_id
                    /\ chan_calls'[n + i].dst = ids.remote_id
              /\ Last(chan_calls').call = "DetachEndpoint"
              /\ Last(chan_calls').src = ids.local_id
              /\ Last(chan_calls').dst = ids.remote_id
              /\ dcheck' = "ok" =>
                    /\ channel_message_queue_' = << >>
                    /\ channel_' = nullptr
                    /\ ~is_valid(local_id_') /\ ~is_valid(remote_id_')
                    /\ is_detached_from_channel_']_vars

\* C14: a WriteMessage that fails during the drain of AttachAndRun does not
\* stop the drain.  Whatever results the Channel gives, the drain hands each
\* queued message to WriteMessage exactly once, in queue order, and the queue
\* is empty afterwards; a message whose write failed is neither put back nor
\* written again.
DrainIgnoresWriteFailures ==
    [][(CallAttachAndRun /\ Len(attach_log') > Len(attach_log)) =>
          LET q == channel_message_queue_
              n == Len(Writes)
          IN  /\ Len(Writes') = n + Len(q)
              /\ \A i \in 1..Len(q) : Writes'[n + i].msg = q[i]
              /\ channel_message_queue_' = << >>]_vars

\* C15: an OnReadMessage call that begins after a DetachFromChannel call has
\* completed, or after DetachFromClient has (the endpoint then has no
\* client), returns from its first locked section: it makes no call on a
\* client, fails no DCHECK and changes no field of the endpoint.
PostDetachSilence ==
    [][(/\ CallOnReadMessage
        /\ \/ n_detach_channel > 0 /\ dc_pc = "idle"
           \/ client_ = nullptr) =>
          /\ rd_pc' = "idle"
          /\ dcheck' = "ok"
          /\ client_calls' = client_calls
          /\ UNCHANGED fields]_vars

IsDelivery(c) == c.call = "OnReadMessage"

\* The client calls that accepted inbound message m.
Deliveries(m) ==
    {i \in DOMAIN client_calls :
        IsDelivery(client_calls[i]) /\ client_calls[i].msg = m /\ client_calls[i].ret}

\* C16 as stated: once OnReadMessage has returned, every inbound message it
\* was given has been accepted by exactly one client call.
ExactlyOneDelivery ==
    (rd_pc = "idle" /\ dcheck = "ok") =>
        \A m \in 1..n_read : Cardinality(Deliveries(m)) = 1

\* C16: no inbound message is delivered twice.  A client call of
\* OnReadMessage returns true exactly when its (client, port) is the
\* endpoint's current pair at the moment of the call, and it is made only
\* for a message that no client call has accepted before; so at most one
\* client accepts a message, the one current at that moment.
AtMostOneDelivery ==
    [][\A i \in (Len(client_calls) + 1)..Len(client_calls') :
          LET c == client_calls'[i]
          IN  IsDelivery(c) =>
                 /\ c.ret <=> (c.client = client_ /\ c.port = client_port_)
                 /\ Deliveries(c.msg) = {}
                 /\ c.msg = n_read]_vars

\* A message was refused by the client snapshotted first, which had been
\* replaced, and then accepted by the client that replaced it.
AtMostOneDeliveryWitness ==
    /\ dcheck = "ok" /\ rd_pc = "idle"
    /\ \E i, j \in DOMAIN client_calls :
          /\ i < j
          /\ IsDelivery(client_calls[i]) /\ IsDelivery(client_calls[j])
          /\ client_calls[i].msg = client_calls[j].msg
          /\ ~client_calls[i].ret /\ client_calls[j].ret
          /\ client_calls[i].client # client_calls[j].client
          /\ client_calls[j].client = client_

\* C17: an inbound message is not dropped because of a client swap.  After a
\* client call has returned false, the next pass of OnReadMessage's loop
\* either snapshots the pair that is current then, to call that client, or
\* returns because it finds the channel or the client absent; there is no
\* other way out of the loop without a delivery.
NoDropOnClientSwap ==
    [][OnReadMessageRetry =>
          \/ /\ rd_pc' = "call"
             /\ rd_client' = client_ /\ rd_client_port' = client_port_
          \/ /\ rd_pc' = "idle" /\ dcheck' = "ok"
             /\ channel_ = nullptr \/ client_ = nullptr]_vars

\* C18: the endpoint never calls client code while it holds its lock.  Every
\* call of a client's OnReadMessage or OnDetachFromChannel is a step of its
\* own, outside any locked section: it is made with the lock released, on
\* the (client, port) that an earlier locked section saved in the caller's
\* locals, and it touches no field of the endpoint and makes no Channel
\* call.
ClientCallsOutsideLock ==
    [][client_calls' # client_calls =>
          /\ Len(client_calls') = Len(client_calls) + 1
          /\ SubSeq(client_calls', 1, Len(client_calls)) = client_calls
          /\ ~Last(client_calls').locked
          /\ UNCHANGED <<fields, chan_calls, dcheck>>
          /\ LET c == Last(client_calls')
             IN  \/ /\ c.call = "OnReadMessage" /\ rd_pc = "call"
                    /\ c.client = rd_client /\ c.port = rd_client_port
                 \/ /\ c.call = "OnDetachFromChannel" /\ dc_pc = "notify"
                    /\ c.client = dc_client /\ c.port = dc_client_port]_vars

\* Both client callbacks have been made.
ClientCallsOutsideLockWitness ==
    /\ dcheck = "ok"
    /\ \E i, j \in DOMAIN client_calls :
          /\ client_calls[i].call = "OnReadMessage"
          /\ client_calls[j].call = "OnDetachFromChannel"

\* C19 as stated: of the calls into collaborators, only Channel.WriteMessage
\* is made while the endpoint's lock is held; Channel.DetachEndpoint and the
\* client callbacks are made with the lock released.
OnlyWritesUnderLock ==
    /\ \A i \in DOMAIN chan_calls :
          chan_calls[i].locked => IsWriteMessage(chan_calls[i])
    /\ \A j \in DOMAIN client_calls : ~client_calls[j].locked

\* C19: the calls into collaborators made while the endpoint's lock is held
\* are exactly the calls on the Channel: every WriteMessage and every
\* DetachEndpoint is made under the lock, and no client callback is.
ChannelCallsUnderLock ==
    /\ \A i \in DOMAIN chan_calls :
          /\ IsWriteMessage(chan_calls[i]) \/ IsDetachEndpoint(chan_calls[i])
          /\ chan_calls[i].locked
    /\ \A j \in DOMAIN client_calls : ~client_calls[j].locked

\* The Channel has seen a write made by EnqueueMessage on the attached
\* endpoint and then the DetachEndpoint of DetachFromClient, and a client
\* has been called as well.
ChannelCallsUnderLockWitness ==
    /\ dcheck = "ok" /\ Len(attach_log) = 1
    /\ Len(Writes) > attach_log[1].before
    /\ DetachEndpoints # << >>
    /\ client_calls # << >>

TeardownDCHECKs ==
    {"ResetChannelNoLock: channel_",
     "ResetChannelNoLock: local_id_.is_valid()",
     "ResetChannelNoLock: remote_id_.is_valid()",
     "ResetChannelNoLock: !is_detached_from_channel_",
     "DetachFromChannel: is_detached_from_channel_"}

\* One step of an endpoint whose one AttachAndRun has returned, while
\* DetachFromClient and DetachFromChannel interleave with each other and with
\* EnqueueMessage and OnReadMessage calls: the step leaves lock_ free and no
\* call waiting for it; a DetachFromClient call on an endpoint with a client
\* and the locked section of a DetachFromChannel call end without a failed
\* assertion; the notification ends the DetachFromChannel call; no assertion
\* of ResetChannelNoLock and not DetachFromChannel's own fails, so the reset
\* is done once; and once DetachFromChannel has returned and the client is
\* gone the endpoint is in its final state.
TeardownSafe ==
    (Len(attach_log) = 1 /\ LockFree /\ Len(attach_log') = 1) =>
        /\ LockFree' /\ lock_waiters' = {}
        /\ dcheck' \notin TeardownDCHECKs
        /\ (CallDetachFromClient /\ client_ # nullptr) =>
              dcheck' = "ok" /\ client_' = nullptr
        /\ CallDetachFromChannel =>
              /\ dcheck' = "ok"
              /\ dc_pc' = "notify" => phase' = "live"
        /\ DetachFromChannelNotify => dc_pc' = "idle"
        /\ (/\ dcheck' = "ok" /\ client_' = nullptr
            /\ n_detach_channel' > 0 /\ dc_pc' = "idle") =>
              /\ channel_' = nullptr
              /\ ~is_valid(local_id_') /\ ~is_valid(remote_id_')
              /\ is_detached_from_channel_'
              /\ Len(DetachEndpoints') <= 1

\* DetachFromChannel's thread keeps running: once its locked section is done
\* it goes on to the notification.
TeardownSpec == Spec /\ WF_vars(DetachFromChannelNotify)

\* C20: racing teardown converges.  On an attached endpoint (its one
\* AttachAndRun has returned), for every interleaving of DetachFromClient and
\* DetachFromChannel with each other and with EnqueueMessage and
\* OnReadMessage calls: both calls return, since no step leaves lock_ held
\* or a call waiting for it, and a DetachFromChannel that has its
\* notification still to make goes on to make it and is finished by it; the
\* reset is done exactly once, since none of its assertions fails; and the
\* endpoint ends up with no client, no channel, both ids invalid, the latch
\* set, and the Channel told of the detach at most once.
RacingTeardownConverges ==
    /\ [][TeardownSafe]_vars
    /\ (dc_pc = "notify") ~> (dc_pc = "idle" \/ dcheck # "ok")

\* DetachFromChannel took its snapshot and reset the channel first, then
\* DetachFromClient found no channel, and the client was still notified;
\* a message was enqueued and one was read along the way.
RacingTeardownConvergesWitness ==
    /\ dcheck = "ok" /\ Len(attach_log) = 1
    /\ n_detach_channel = 1 /\ dc_pc = "idle" /\ rd_pc = "idle"
    /\ client_ = nullptr /\ channel_ = nullptr /\ is_detached_from_channel_
    /\ DetachEndpoints = << >>
    /\ \E j \in DOMAIN client_calls : client_calls[j].call = "OnDetachFromChannel"
    /\ n_read > 0
    /\ next_message > attach_log[1].before + 1

\* C21: DetachFromChannel is idempotent.  A DetachFromChannel call made on
\* an endpoint as an earlier DetachFromChannel call left it (channel absent,
\* latch set) fails no DCHECK and changes no field of the endpoint: client,
\* client_port, channel, ids, queue and latch stay as they were.
DetachFromChannelIdempotent ==
    [][(/\ CallDetachFromChannel
        /\ n_detach_channel > 0
        /\ channel_ = nullptr /\ is_detached_from_channel_) =>
          /\ dcheck' = "ok"
          /\ UNCHANGED fields]_vars

\* DetachFromChannel has been called twice on an endpoint that was attached
\* once and still has its client.
DetachFromChannelIdempotentWitness ==
    /\ dcheck = "ok" /\ Len(attach_log) = 1
    /\ n_detach_channel = 2
    /\ client_ # nullptr /\ channel_ = nullptr /\ is_detached_from_channel_
    /\ ~is_valid(local_id_) /\ ~is_valid(remote_id_)

IsDetachNotification(c) == c.call = "OnDetachFromChannel"

\* The OnDetachFromChannel calls made on clients, in order.
DetachNotifications == SelectSeq(client_calls, IsDetachNotification)

\* C22: DetachFromChannel calls on one endpoint, attached once and with a
\* client, do not notify the client again: however many DetachFromChannel
\* calls are made, a client's OnDetachFromChannel is called at most once.
DetachNotifiedAtMostOnce ==
    Len(attach_log) <= 1 => Len(DetachNotifications) <= 1

\* C23 as stated: the OnDetachFromChannel notification goes to the client
\* and port that are current when it is made, so after a ReplaceClient
\* between the locked section and the notification, to the new client.
DetachNotifiesCurrentClient ==
    [][(DetachFromChannelNotify /\ client_ # nullptr) =>
          /\ Last(client_calls').client = client_
          /\ Last(client_calls').port = client_port_]_vars

\* C23: the OnDetachFromChannel notification goes to the client and port
\* that DetachFromChannel saved under the lock.  The locked section saves the
\* pair current then, a ReplaceClient that runs before the notification
\* changes neither the saved pair nor the calls made on clients, and the
\* notification is one call, on the saved pair: the old client receives it
\* and the new client receives none.
DetachNotifiesSnapshottedClient ==
    [][/\ CallDetachFromChannel =>
             /\ dc_client' = client_
             /\ client_ # nullptr => dc_client_port' = client_port_
             /\ client_calls' = client_calls
       /\ (CallReplaceClient /\ dc_pc = "notify") =>
             /\ UNCHANGED dc_vars
             /\ client_calls' = client_calls
       /\ DetachFromChannelNotify =>
             client_calls' = Append(client_calls,
                                    [call |-> "OnDetachFromChannel",
                                     client |-> dc_client,
                                     port |-> dc_client_port,
                                     msg |-> nullptr, ret |-> TRUE,
                                     locked |-> FALSE])]_vars

\* One DetachFromChannel call has notified a client that ReplaceClient had
\* replaced by then; the client now current has not been notified.
DetachNotifiesSnapshottedClientWitness ==
    /\ dcheck = "ok" /\ n_detach_channel = 1 /\ dc_pc = "idle"
    /\ client_ # nullptr
    /\ Len(DetachNotifications) = 1
    /\ \/ DetachNotifications[1].client # client_
       \/ DetachNotifications[1].port # client_port_

\* C24: once DetachFromClient has returned the endpoint has no client, and
\* in every state without a client in which no operation is inside its
\* critical section (lock_ is free), the destructor's assertions hold: the
\* channel is absent and both ids are invalid, also when AttachAndRun comes
\* only after DetachFromClient.  Conversely they fail in every state with a
\* client or a channel.
DestructibleIffNoClient ==
    (phase # "unconstructed" /\ dcheck = "ok") =>
        /\ (client_ = nullptr /\ LockFree) =>
              /\ channel_ = nullptr
              /\ ~is_valid(local_id_) /\ ~is_valid(remote_id_)
              /\ Destructor(Endpoint).dcheck = "ok"
        /\ (client_ # nullptr \/ channel_ # nullptr) =>
              Destructor(Endpoint).dcheck # "ok"

\* Three calls were made, none of them EnqueueMessage, OnReadMessage or
\* DetachFromChannel: an AttachAndRun, a DetachFromClient, and the
\* destructor, which passed.
DestructibleIffNoClientWitness ==
    /\ phase = "destroyed" /\ dcheck = "ok"
    /\ n_calls = 3 /\ Len(attach_log) = 1
    /\ n_read = 0 /\ n_detach_channel = 0
    /\ next_message = attach_log[1].before + 1
    /\ DetachEndpoints # << >>

\* The messages the Channel has been handed.
Written == {Writes[i].msg : i \in DOMAIN Writes}

\* The messages in the pending queue.
Queued == {channel_message_queue_[i] : i \in DOMAIN channel_message_queue_}

\* C25: destroying an endpoint that has no client and no channel but still
\* has queued messages fails no DCHECK: the destructor does not look at the
\* queue.  The queued messages have not been handed to the Channel and the
\* destructor does not hand them over either.
DestructorIgnoresQueue ==
    [][(/\ CallDestructor
        /\ client_ = nullptr /\ channel_ = nullptr
        /\ channel_message_queue_ # << >>) =>
          /\ dcheck' = "ok" /\ phase' = "destroyed"
          /\ chan_calls' = chan_calls
          /\ Queued \cap Written = {}]_vars

\* An endpoint has been destroyed with messages still queued.
DestructorIgnoresQueueWitness ==
    /\ phase = "destroyed" /\ dcheck = "ok"
    /\ channel_message_queue_ # << >>
    /\ Queued \cap Written = {}

\* C26: no message is silently dropped while the endpoint has no channel.
\* Every message supplied at construction or given to EnqueueMessage is, in
\* every state, either still in the pending queue or has been handed to
\* Channel.WriteMessage, never both and never neither; EnqueueMessage
\* without a channel returns true and puts the message in the queue; and a
\* message leaves the queue only by being handed to WriteMessage.  A queued
\* message is lost only by the endpoint being destroyed with it still queued.
NoSilentDropWhileUnattached ==
    [][/\ (Queued' \cup Written') = 1..(next_message' - 1)
       /\ Queued' \cap Written' = {}
       /\ Len(channel_message_queue_') = Cardinality(Queued')
       /\ (CallEnqueueMessage /\ channel_ = nullptr) =>
             /\ ret' = "true"
             /\ next_message \in Queued'
       /\ (Queued \ Queued') \subseteq Written']_vars

\* A message given to EnqueueMessage before the attach (more messages than
\* a constructor supplies were queued) was written by the drain, and one is
\* queued again after the detach.
NoSilentDropWhileUnattachedWitness ==
    /\ dcheck = "ok" /\ Len(attach_log) = 1
    /\ attach_log[1].before > MaxInitialQueue
    /\ Len(Writes) >= attach_log[1].before
    /\ channel_ = nullptr
    /\ channel_message_queue_ # << >>

\* C27: construction needs a client or a message queue, and with neither
\* its DCHECK fails.  For every client (or none), port and queue (or none)
\* the new endpoint has no channel, invalid ids, the latch false, the given
\* client and port, and a pending queue that is the supplied queue, message
\* for message; and the state right after construction, before any call,
\* is such an endpoint, with no call made on the Channel.
ConstructionContract ==
    /\ \A client \in Clients \cup {nullptr}, client_port \in Ports,
          has_queue \in BOOLEAN, k \in 0..MaxInitialQueue :
          LET q == [i \in 1..k |-> i]
              e == ChannelEndpoint(client, client_port, has_queue, q)
          IN  /\ e.dcheck = "ok" <=> (client # nullptr \/ has_queue)
              /\ e.dcheck = "ok" =>
                    /\ e.client_ = client /\ e.client_port_ = client_port
                    /\ e.channel_ = nullptr
                    /\ ~is_valid(e.local_id_) /\ ~is_valid(e.remote_id_)
                    /\ ~e.is_detached_from_channel_
                    /\ e.channel_message_queue_ = IF has_queue THEN q ELSE << >>
    /\ (phase = "live" /\ n_calls = 0) =>
          /\ channel_ = nullptr
          /\ ~is_valid(local_id_) /\ ~is_valid(remote_id_)
          /\ ~is_detached_from_channel_
          /\ chan_calls = << >>
          /\ channel_message_queue_ = [i \in 1..(next_message - 1) |-> i]
          /\ dcheck # "ok" => (client_ = nullptr /\ channel_message_queue_ = << >>)

\* An endpoint has just been constructed with a client and two queued
\* messages.
ConstructionContractWitness ==
    /\ phase = "live" /\ n_calls = 0 /\ dcheck = "ok"
    /\ client_ # nullptr
    /\ channel_message_queue_ = <<1, 2>>
    /\ channel_ = nullptr /\ ~is_detached_from_channel_

\* C28: a ReplaceClient call that takes the lock after the locked section
\* of a DetachFromChannel call returns false, and it leaves the pair saved
\* by that locked section alone, so that the OnDetachFromChannel call that
\* follows is made on the saved pair, the old client and port, and not on
\* the replacement.
ReplaceAfterDetachFromChannel ==
    [][/\ (CallReplaceClient /\ n_detach_channel > 0 /\ dcheck' = "ok") =>
             /\ ret' = "false"
             /\ UNCHANGED dc_vars
       /\ DetachFromChannelNotify =>
             /\ IsDetachNotification(Last(client_calls'))
             /\ Last(client_calls').client = dc_client
             /\ Last(client_calls').port = dc_client_port]_vars

\* ReplaceClient has just returned false between the locked section of
\* DetachFromChannel and its notification, which is still to go to the
\* client that was replaced.
ReplaceAfterDetachFromChannelWitness ==
    /\ dcheck = "ok" /\ ret = "false"
    /\ n_detach_channel = 1 /\ dc_pc = "notify"
    /\ Len(attach_log) = 1 /\ channel_ = nullptr
    /\ client_ # nullptr /\ dc_client # nullptr
    /\ dc_client # client_
    /\ DetachNotifications = << >>

\* C29: EnqueueMessage on an endpoint that has been detached from its
\* channel (latch set, channel absent) does not report failure: it returns
\* true and appends the message to the pending queue.  A message queued on a
\* detached endpoint is never handed to a Channel.
EnqueueAfterDetachNeverWritten ==
    [][/\ (CallEnqueueMessage /\ is_detached_from_channel_
                              /\ channel_ = nullptr) =>
             /\ ret' = "true"
             /\ channel_message_queue_' =
                   Append(channel_message_queue_, next_message)
             /\ chan_calls' = chan_calls
       /\ (is_detached_from_channel_ /\ channel_ = nullptr /\ dcheck' = "ok") =>
             Queued \cap Written' = {}]_vars

\* C30: the assertion at the top of OnReadMessage's loop never fails: in
\* every pass after the first that finds channel and client present, the
\* current (client, client_port) differs from the pair saved by the pass
\* before, whatever ReplaceClient calls were made in between.
RetryFindsDifferentClient ==
    [][(OnReadMessageRetry /\ channel_ # nullptr /\ client_ # nullptr) =>
          /\ client_ # rd_client \/ client_port_ # rd_client_port
          /\ dcheck' = "ok"]_vars

\* C31: on an endpoint that the Channel has attached through AttachAndRun,
\* whenever the channel is absent the detached latch is set, so a
\* DetachFromChannel that finds the channel absent finds its assertion
\* true: DCHECK(is_detached_from_channel_) never fails there, also when
\* DetachFromClient or a client-less AttachAndRun did the detaching.
ChannelAbsentAfterAttachIsLatched ==
    attach_log # << >> =>
        /\ channel_ = nullptr => is_detached_from_channel_
        /\ dcheck # "DetachFromChannel: is_detached_from_channel_"

\* The endpoint was attached once and told the Channel of its detach, which
\* only DetachFromClient or a client-less AttachAndRun does, and after that
\* reset a DetachFromChannel call found the channel absent and returned.
ChannelAbsentAfterAttachIsLatchedWitness ==
    /\ dcheck = "ok" /\ Len(attach_log) = 1
    /\ DetachEndpoints # << >>
    /\ n_detach_channel > 0 /\ dc_pc = "idle"
    /\ channel_ = nullptr /\ is_detached_from_channel_

\* The thread that runs OnReadMessage is scheduled: it gets to make its
\* client call, and after a yield it gets the lock for the next pass.  The
\* number of calls on the endpoint is bounded, so only finitely many
\* ReplaceClient calls occur.
LiveSpec ==
    Spec /\ WF_vars(OnReadMessageDeliver) /\ WF_vars(OnReadMessageRetry)

\* C32: OnReadMessage terminates.  With finitely many ReplaceClient calls,
\* clients that refuse a message only when replaced, and fair scheduling,
\* every OnReadMessage invocation eventually returns, having delivered the
\* message or found the channel or the client absent, unless a DCHECK of
\* another call on the endpoint has stopped the process meanwhile.
OnReadMessageTerminates ==
    (rd_pc # "idle") ~>
        \/ rd_pc = "idle" /\ dcheck = "ok"
        \/ dcheck \notin
              {"ok", "OnReadMessage: client_ != client || client_port_ != client_port"}

\* C33: DetachFromClient on an endpoint without a channel only clears the
\* client.  It makes no call on the Channel and leaves client_port, channel,
\* ids, pending queue and latch as they were, so an endpoint that was never
\* attached stays unattached with the latch false and its queue intact.
DetachFromClientWithoutChannel ==
    [][(CallDetachFromClient /\ channel_ = nullptr) =>
          /\ dcheck' = "ok" => client_' = nullptr
          /\ chan_calls' = chan_calls
          /\ UNCHANGED <<client_port_, channel_, local_id_, remote_id_,
                         channel_message_queue_, is_detached_from_channel_>>]_vars

\* The one call made on a never-attached endpoint was DetachFromClient (it
\* returned nothing and left no client): the queue is still there and the
\* latch is still false, ready for an AttachAndRun to drain.
DetachFromClientWithoutChannelWitness ==
    /\ phase = "live" /\ dcheck = "ok"
    /\ n_calls = 1 /\ ret = "none" /\ n_read = 0
    /\ attach_log = << >>
    /\ client_ = nullptr /\ channel_ = nullptr
    /\ channel_message_queue_ # << >>
    /\ ~is_detached_from_channel_

\* C34: DetachFromChannel never changes the client side or the queue.
\* Neither its locked section nor its notification writes client,
\* client_port or the pending queue, so an endpoint with a client still has
\* that client after a channel-side detach.
DetachFromChannelKeepsClient ==
    [][(CallDetachFromChannel \/ DetachFromChannelNotify) =>
          UNCHANGED <<client_, client_port_, channel_message_queue_>>]_vars

\* DetachFromChannel has run to its end, the client notified, and the
\* endpoint still has its client: the destructor's assertions do not hold
\* until DetachFromClient is called as well.
DetachFromChannelKeepsClientWitness ==
    /\ dcheck = "ok" /\ Len(attach_log) = 1
    /\ n_detach_channel = 1 /\ dc_pc = "idle"
    /\ Len(DetachNotifications) = 1
    /\ client_ # nullptr /\ DetachNotifications[1].client = client_
    /\ channel_ = nullptr /\ is_detached_from_channel_
    /\ Destructor(Endpoint).dcheck # "ok"

\* C35: no use of the channel after detachment.  Once the detached latch is
\* set, no call that returns makes a call on the Channel: no WriteMessage
\* and no DetachEndpoint.
NoChannelCallOnceLatched ==
    [][(is_detached_from_channel_ /\ dcheck' = "ok") =>
          chan_calls' = chan_calls]_vars

\* C36: client and port are observed as a pair.  A locked section that
\* saves a client for a later call saves the client and the port that the
\* endpoint holds at that one moment; the saved pair is not touched until
\* the call is made; and every OnReadMessage and OnDetachFromChannel call
\* is made on a saved pair.  So no call mixes the client of one stored pair
\* with the port of another, whatever ReplaceClient does in between.
ClientAndPortSnapshotTogether ==
    [][/\ ((CallOnReadMessage \/ OnReadMessageRetry) /\ rd_pc' = "call") =>
             /\ rd_client' = client_ /\ rd_client_port' = client_port_
             /\ rd_client' = client_' /\ rd_client_port' = client_port_'
       /\ (CallDetachFromChannel /\ dc_pc' = "notify") =>
             /\ dc_client' = client_ /\ dc_client_port' = client_port_
             /\ dc_client' = client_' /\ dc_client_port' = client_port_'
       /\ rd_pc = "call" => UNCHANGED <<rd_client, rd_client_port>>
       /\ dc_pc = "notify" => UNCHANGED <<dc_client, dc_client_port>>
       /\ \A i \in (Len(client_calls) + 1)..Len(client_calls') :
             LET c == client_calls'[i]
             IN  /\ IsDelivery(c) =>
                       /\ rd_pc = "call"
                       /\ c.client = rd_client /\ c.port = rd_client_port
                 /\ IsDetachNotification(c) =>
                       /\ dc_pc = "notify"
                       /\ c.client = dc_client /\ c.port = dc_client_port]_vars

\* A client call was made on a saved pair after ReplaceClient had stored a
\* pair with another client and another port.
ClientAndPortSnapshotTogetherWitness ==
    /\ dcheck = "ok" /\ client_ # nullptr
    /\ \E i \in DOMAIN client_calls :
          /\ client_calls[i].client # client_
          /\ client_calls[i].port # client_port_
          /\ client_calls[i].port # 0

\* C37: when DetachFromClient returns, no call on the client it detached is
\* still to come: no OnReadMessage or DetachFromChannel invocation is left
\* between its locked section and its client call holding that client (such
\* an invocation makes the call as its next step), and no invocation takes a
\* client while the endpoint has none.
NoCallOnDetachedClient ==
    [][/\ (CallDetachFromClient /\ dcheck' = "ok") =>
             /\ ~(rd_pc' = "call" /\ rd_client' = client_)
             /\ ~(dc_pc' = "notify" /\ dc_client' = client_)
       /\ client_ = nullptr =>
             /\ rd_pc' = "call" => rd_pc = "call"
             /\ dc_pc' = "notify" => dc_pc = "notify"]_vars

\* C37, as the code has it: once the endpoint has no client, no locked
\* section takes a client for a call, so the only client calls still made are
\* those of invocations that took theirs before DetachFromClient ran: one
\* call each.  Such an OnReadMessage call is refused by the client and the
\* loop's next pass returns without a call; such an OnDetachFromChannel call
\* ends its DetachFromChannel.
OnlyPendingCallsAfterDetachFromClient ==
    [][client_ = nullptr =>
          /\ rd_pc' = "call" => rd_pc = "call"
          /\ dc_pc' = "notify" => dc_pc = "notify"
          /\ Len(client_calls') <= Len(client_calls) + 1
          /\ \A i \in (Len(client_calls) + 1)..Len(client_calls') :
                LET c == client_calls'[i]
                IN  /\ IsDelivery(c) =>
                          /\ rd_pc = "call" /\ c.client = rd_client
                          /\ c.ret = FALSE
                          /\ rd_pc' = "yield"
                    /\ IsDetachNotification(c) =>
                          /\ dc_pc = "notify" /\ c.client = dc_client
                          /\ dc_pc' = "idle"]_vars

\* AttachAndRun, OnReadMessage and DetachFromClient were called, and the
\* client that OnReadMessage took before DetachFromClient ran was called
\* after it and refused the message.
OnlyPendingCallsAfterDetachFromClientWitness ==
    /\ dcheck = "ok" /\ client_ = nullptr
    /\ n_calls = 3 /\ n_read = 1 /\ Len(attach_log) = 1
    /\ rd_pc = "yield"
    /\ Len(client_calls) = 1
    /\ IsDelivery(client_calls[1]) /\ client_calls[1].ret = FALSE

\* C38: exactly-once hand-off when EnqueueMessage calls race with one
\* AttachAndRun.  Messages are numbered in the order in which their
\* EnqueueMessage calls took the lock.  Once the one AttachAndRun has run,
\* the Channel has been handed messages 1..k, each once and in that order,
\* k covers every message that came before the attach, and the messages
\* after k are in the queue, in order.  Messages are left in the queue only
\* on an endpoint that has been detached from its channel, and the queue of
\* an attached endpoint is empty: so every message that came before the
\* detach is among the k written ones.
ExactlyOnceHandOff ==
    (Len(attach_log) = 1 /\ dcheck = "ok") =>
        LET k == Len(Writes)
        IN  /\ \A i \in 1..k : Writes[i].msg = i
            /\ k >= attach_log[1].before
            /\ k <= next_message - 1
            /\ channel_message_queue_ = [i \in 1..(next_message - 1 - k) |-> k + i]
            /\ channel_message_queue_ # << >> =>
                  is_detached_from_channel_ /\ channel_ = nullptr

\* The assertions at the top of WriteMessageNoLock and ResetChannelNoLock.
HelperDCHECKs ==
    {"WriteMessageNoLock: message",
     "WriteMessageNoLock: channel_",
     "WriteMessageNoLock: local_id_.is_valid()",
     "WriteMessageNoLock: remote_id_.is_valid()",
     "ResetChannelNoLock: channel_",
     "ResetChannelNoLock: local_id_.is_valid()",
     "ResetChannelNoLock: remote_id_.is_valid()",
     "ResetChannelNoLock: !is_detached_from_channel_"}

\* C39: as long as AttachAndRun has run at most once on the endpoint, no
\* assertion of the internal helpers fails: every entry into
\* ResetChannelNoLock finds the channel attached, both ids valid and the
\* latch not set (so a second reset never happens), and every entry into
\* WriteMessageNoLock finds the channel attached and both ids valid.
HelperAssertionsHold ==
    Len(attach_log) <= 1 => dcheck \notin HelperDCHECKs

\* After one AttachAndRun a message was written (WriteMessageNoLock), the
\* channel was reset (ResetChannelNoLock) and DetachFromChannel was called
\* again, without a failed assertion.
HelperAssertionsHoldWitness ==
    /\ Len(attach_log) = 1 /\ dcheck = "ok"
    /\ Writes # << >>
    /\ is_detached_from_channel_
    /\ n_detach_channel >= 2 /\ dc_pc = "idle"
====
